---- MODULE Spec2Model ----
(***************************************************************************)
(* gredentures: exchange an MFA token for AWS session credentials and      *)
(* rewrite ~/.aws/credentials.                                             *)
(*                                                                         *)
(* The model covers pkg/appconfig (AppConfig: Parse, WriteGredenturesConfig,*)
(* GetGredenturesConfig, LoadGredenturesConfig, ValidateOptions),          *)
(* pkg/awsconfig (AwsConfig: GetDefaultCreds, GetSessionCreds,             *)
(* CreateUpdatedConfig) and the pipeline of cmd/gredentures main().        *)
(*                                                                         *)
(* Four specifications share the variables:                                *)
(*   Spec      one run of main() from an arbitrary environment;            *)
(*   SpecAPI   the exported AppConfig methods called directly, in any      *)
(*             order, on an arbitrary in-memory configuration;             *)
(*   SpecRuns  consecutive resolutions (ValidateOptions on a fresh         *)
(*             AppConfig) against one config path;                         *)
(*   SpecRace  two invocations saving the credentials file at once.        *)
(***************************************************************************)
EXTENDS Integers, Sequences, FiniteSets, TLC

VARIABLES
    g_app,      \* the AppConfig in memory
    cfgFile,    \* the file at the path g_app.Config names
    lastCall,   \* the last AppConfig method call: inputs, result, error
    pc,         \* position of main() in its pipeline
    args,       \* the command line of the run
    g_aws,      \* the AwsConfig in memory
    credFile,   \* $HOME/.aws/credentials
    credFile0,  \* $HOME/.aws/credentials as the run found it
    awsEnv,     \* the environment: AWS_PROFILE and whether ~/.aws is writable
    steps,      \* outcome of every pipeline step of the run
    stsInput,   \* the GetSessionTokenInput sent to STS, if any
    printed,    \* the profile named by the instructional message, if printed
    exitStatus, \* exit status of the process, once it exited
    results,    \* SpecRuns: the resolutions made so far, one record a run
    race        \* SpecRace: the credentials file's bytes and the two savers

vars == <<g_app, cfgFile, lastCall, pc, args, g_aws, credFile, credFile0,
          awsEnv, steps, stsInput, printed, exitStatus, results, race>>

cfgVars == <<g_app, cfgFile, lastCall>>
pipeVars == <<pc, args, g_aws, credFile, credFile0, awsEnv, steps, stsInput,
              printed, exitStatus>>
runVars == <<results, race>>

-----------------------------------------------------------------------------
(* Bounds *)

\* number of consecutive resolutions SpecRuns follows
MaxResolutions == 2

\* longest serialized credentials document SpecRace follows, in blocks
MaxDocLen == 3

-----------------------------------------------------------------------------
(* Values decoded from YAML: absent key, string scalar, integer scalar *)

NoVal == [k |-> "none", s |-> "", n |-> 0]
Str(x) == [k |-> "str", s |-> x, n |-> 0]
Num(i) == [k |-> "int", s |-> "", n |-> i]

\* docopt defaults of the Usage text
DefaultTimeout == 86400
DefaultProfile == "default-mfa"
DocoptConfigDefault == "$HOME/.gredentures.yml"

\* GetGredenturesConfig's path when Config is empty
HomeConfigPath == "/home/user/.gredentures.yml"

Keys == {"Org", "Device", "Timeout"}

\* error values, named by the message of the outermost error
ErrNone == ""
ErrLoadFile == "failed to load YAML file into koanf"
ErrWriteFile == "failed to write configuration to file"
ErrStat == "error checking config file"
ErrConfig == "error getting gredentures config"
ErrToken == "token must be supplied for MFA"
ErrOrgDevice == "the Token must be set with a commandline arg. Org, and Device must be set in a config file or as commandline options"

-----------------------------------------------------------------------------
(* The config file.  kind:                                                 *)
(*   absent       no file, the path can be created                         *)
(*   nodir        no file, the parent directory is missing (ENOENT on write)*)
(*   noaccess     stat fails with an error other than not-exist            *)
(*   undecodable  a file the YAML parser rejects                           *)
(*   yaml         a decodable file; layout nested is                       *)
(*                  gredentures: {Org: .., Device: .., Timeout: ..}        *)
(*                and layout flat has the top-level keys gredentures.Org,  *)
(*                gredentures.Device, gredentures.Timeout                  *)

NoFile(kind) ==
    [kind |-> kind, layout |-> "none", Org |-> NoVal, Device |-> NoVal, Timeout |-> NoVal]

YamlFile(layout, org, device, timeout) ==
    [kind |-> "yaml", layout |-> layout, Org |-> org, Device |-> device, Timeout |-> timeout]

\* os.Stat(conf.Config)
Stat(file) ==
    CASE file.kind \in {"yaml", "undecodable"} -> "ok"
      [] file.kind \in {"absent", "nodir"} -> "notexist"
      [] OTHER -> "error"

\* strconv.ParseInt on the strings of the model
Atoi(s) ==
    CASE s = "300" -> [n |-> 300, ok |-> TRUE]
      [] s = "3600" -> [n |-> 3600, ok |-> TRUE]
      [] OTHER -> [n |-> 0, ok |-> FALSE]

\* koanf String(): a string as it is, any other value through fmt "%v"
KString(v) ==
    CASE v.k = "str" -> v.s
      [] v.k = "int" -> ToString(v.n)
      [] OTHER -> ""

\* koanf Int(): an integer as it is, a string through ParseInt, 0 when that fails
KInt(v) ==
    CASE v.k = "int" -> v.n
      [] v.k = "str" -> Atoi(v.s).n
      [] OTHER -> 0

\* koanf Get() after the confmap load of the existing values and the load of
\* the file.  A nested file overrides the existing value of every key it
\* holds.  A flat file adds the literal top-level key "gredentures.<key>"
\* beside the nested one; both flatten to the same path and the key map
\* keeps the one the map iteration visits last: pick[key] says the file's
\* key is the one kept.
KoanfGet(existing, file, key, pick) ==
    IF file[key].k = "none" THEN existing[key]
    ELSE IF file.layout = "flat" /\ ~pick[key] THEN existing[key]
    ELSE file[key]

Picks == [Keys -> BOOLEAN]

-----------------------------------------------------------------------------
(* pkg/appconfig: the AppConfig methods, as functions of the in-memory     *)
(* configuration and the file; each returns the configuration and the file *)
(* it leaves and the error it returns.                                     *)

\* the values LoadGredenturesConfig and WriteGredenturesConfig load into koanf
ConfMap(conf) ==
    [Org |-> Str(conf.Org), Device |-> Str(conf.Device), Timeout |-> Num(conf.Timeout)]

\* WriteGredenturesConfig with the Timeout key left out of configMap
WriteGredenturesConfig_NoTimeout(conf, file) ==
    IF file.kind \in {"nodir", "noaccess"}
    THEN [conf |-> conf, file |-> file, err |-> ErrWriteFile]
    ELSE [conf |-> conf,
          file |-> YamlFile("flat", ConfMap(conf).Org, ConfMap(conf).Device, NoVal),
          err |-> ErrNone]

WriteGredenturesConfig(conf, file) ==
    IF file.kind \in {"nodir", "noaccess"}
    THEN [conf |-> conf, file |-> file, err |-> ErrWriteFile]
    ELSE [conf |-> conf,
          file |-> YamlFile("flat", ConfMap(conf).Org, ConfMap(conf).Device,
                            ConfMap(conf).Timeout),
          err |-> ErrNone]

\* LoadGredenturesConfig creating the file it does not find, as
\* GetGredenturesConfig does, before it reports the failed load
LoadGredenturesConfig_CreatesMissing(conf, file, pick) ==
    IF file.kind = "absent"
    THEN [WriteGredenturesConfig(conf, file) EXCEPT !.err = ErrLoadFile]
    ELSE IF file.kind # "yaml"
    THEN [conf |-> conf, file |-> file, err |-> ErrLoadFile]
    ELSE [conf |-> [conf EXCEPT
                      !.Org = IF conf.Org = ""
                              THEN KString(KoanfGet(ConfMap(conf), file, "Org", pick))
                              ELSE @,
                      !.Device = IF conf.Device = ""
                                 THEN KString(KoanfGet(ConfMap(conf), file, "Device", pick))
                                 ELSE @,
                      !.Timeout = IF conf.Timeout = 0
                                  THEN KInt(KoanfGet(ConfMap(conf), file, "Timeout", pick))
                                  ELSE @],
          file |-> file,
          err |-> ErrNone]

LoadGredenturesConfig(conf, file, pick) ==
    IF file.kind # "yaml"
    THEN [conf |-> conf, file |-> file, err |-> ErrLoadFile]
    ELSE [conf |-> [conf EXCEPT
                      !.Org = IF conf.Org = ""
                              THEN KString(KoanfGet(ConfMap(conf), file, "Org", pick))
                              ELSE @,
                      !.Device = IF conf.Device = ""
                                 THEN KString(KoanfGet(ConfMap(conf), file, "Device", pick))
                                 ELSE @,
                      !.Timeout = IF conf.Timeout = 0
                                  THEN KInt(KoanfGet(ConfMap(conf), file, "Timeout", pick))
                                  ELSE @],
          file |-> file,
          err |-> ErrNone]

\* the first statement of GetGredenturesConfig: the default path
WithConfigPath(conf) ==
    IF conf.Config = "" THEN [conf EXCEPT !.Config = HomeConfigPath] ELSE conf

\* GetGredenturesConfig writing the file whether or not it exists
GetGredenturesConfig_AlwaysWrites(conf, file, pick) ==
    CASE Stat(file) \in {"ok", "notexist"} -> WriteGredenturesConfig(WithConfigPath(conf), file)
      [] OTHER -> [conf |-> WithConfigPath(conf), file |-> file, err |-> ErrStat]

\* GetGredenturesConfig saving the merged values after a successful load
GetGredenturesConfig_SavesAfterLoad(conf, file, pick) ==
    CASE Stat(file) = "ok" ->
           LET loaded == LoadGredenturesConfig(WithConfigPath(conf), file, pick)
           IN  IF loaded.err = ErrNone
               THEN WriteGredenturesConfig(loaded.conf, loaded.file)
               ELSE loaded
      [] Stat(file) = "notexist" -> WriteGredenturesConfig(WithConfigPath(conf), file)
      [] OTHER -> [conf |-> WithConfigPath(conf), file |-> file, err |-> ErrStat]

GetGredenturesConfig(conf, file, pick) ==
    CASE Stat(file) = "ok" -> LoadGredenturesConfig(WithConfigPath(conf), file, pick)
      [] Stat(file) = "notexist" -> WriteGredenturesConfig(WithConfigPath(conf), file)
      [] OTHER -> [conf |-> WithConfigPath(conf), file |-> file, err |-> ErrStat]

\* RequiredValues with the org/device case tested before the token case
RequiredValues_OrgDeviceFirst(conf) ==
    CASE conf.Org = "" \/ conf.Device = "" -> ErrOrgDevice
      [] conf.Token = "" -> ErrToken
      [] OTHER -> ErrNone

\* RequiredValues with the device test forgotten
RequiredValues_OrgOnly(conf) ==
    CASE conf.Token = "" -> ErrToken
      [] conf.Org = "" -> ErrOrgDevice
      [] OTHER -> ErrNone

\* RequiredValues with && for ||
RequiredValues_And(conf) ==
    CASE conf.Token = "" -> ErrToken
      [] conf.Org = "" /\ conf.Device = "" -> ErrOrgDevice
      [] OTHER -> ErrNone

\* the switch of ValidateOptions over the merged configuration
RequiredValues(conf) ==
    CASE conf.Token = "" -> ErrToken
      [] conf.Org = "" \/ conf.Device = "" -> ErrOrgDevice
      [] OTHER -> ErrNone

\* ValidateOptions testing the required values before it looks for the file
ValidateOptions_ChecksFirst(conf, file, pick) ==
    IF RequiredValues(conf) # ErrNone
    THEN [conf |-> conf, file |-> file, err |-> RequiredValues(conf)]
    ELSE LET got == GetGredenturesConfig(conf, file, pick)
         IN  IF got.err # ErrNone
             THEN [got EXCEPT !.err = ErrConfig]
             ELSE [got EXCEPT !.err = RequiredValues(got.conf)]

\* ValidateOptions with the error of GetGredenturesConfig dropped
ValidateOptions_ErrorDropped(conf, file, pick) ==
    LET got == GetGredenturesConfig(conf, file, pick)
    IN  [got EXCEPT !.err = RequiredValues(got.conf)]

ValidateOptions(conf, file, pick) ==
    LET got == GetGredenturesConfig(conf, file, pick)
    IN  IF got.err # ErrNone
        THEN [got EXCEPT !.err = ErrConfig]
        ELSE [got EXCEPT !.err = RequiredValues(got.conf)]

-----------------------------------------------------------------------------
(* The states the model starts from *)

AppConfigOf(token, config, org, device, timeout, profile) ==
    [Token |-> token, Config |-> config, Org |-> org, Device |-> device,
     Timeout |-> timeout, Profile |-> profile]

\* the zero AppConfig of `var g_app appc.AppConfig`
ZeroAppConfig == AppConfigOf("", "", "", "", 0, "")

\* the configurations a caller of the package builds
FreshConfigs ==
    { AppConfigOf(token, config, org, device, timeout, DefaultProfile) :
        token \in {"", "123456"}, config \in {"", "/tmp/config"},
        org \in {"", "cli-org"}, device \in {"", "cli-device"},
        timeout \in {0, 600} }

\* files a user wrote, in the layout of the Readme
NestedFiles ==
    { YamlFile("nested", org, device, timeout) :
        org \in {NoVal, Str("file-org")}, device \in {NoVal, Str("file-device")},
        timeout \in {NoVal, Num(300), Str("invalid")} }

\* files an earlier run of WriteGredenturesConfig left
WrittenFiles ==
    { WriteGredenturesConfig(AppConfigOf("", "", org, device, timeout, ""),
                             NoFile("absent")).file :
        org \in {"", "file-org"}, device \in {"", "file-device"},
        timeout \in {0, 300} }

InitFiles ==
    { NoFile(kind) : kind \in {"absent", "nodir", "noaccess", "undecodable"} }
    \cup NestedFiles \cup WrittenFiles

NoCall == [op |-> "none", pre |-> ZeroAppConfig, preFile |-> NoFile("absent"), err |-> ErrNone]

Called(op, r) ==
    /\ g_app' = r.conf
    /\ cfgFile' = r.file
    /\ lastCall' = [op |-> op, pre |-> g_app, preFile |-> cfgFile, err |-> r.err]

-----------------------------------------------------------------------------
(* docopt: the command line.  An option that is not given takes the        *)
(* default of the Usage text, if it has one.                               *)

NotGiven == "<not given>"

\* timeout is read only when hasTimeout
ArgsOf(token, config, org, device, profile, hasTimeout, timeout) ==
    [token |-> token, config |-> config, org |-> org, device |-> device,
     profile |-> profile, hasTimeout |-> hasTimeout, timeout |-> timeout]

NoArgs == ArgsOf("", NotGiven, "", "", NotGiven, FALSE, 0)

CommandLines ==
    { a \in [token : {"", "123456"}, config : {NotGiven, "/tmp/config"},
             org : {"", "cli-org"}, device : {"", "cli-device"},
             profile : {NotGiven, "", "custom-profile"},
             hasTimeout : BOOLEAN, timeout : {0, 600}] :
        a.hasTimeout \/ a.timeout = 0 }

\* Parse with the --profile option never bound
Parse_ProfileIgnored(conf, a) ==
    [conf EXCEPT
       !.Token = a.token,
       !.Config = IF a.config = NotGiven THEN DocoptConfigDefault ELSE a.config,
       !.Org = a.org,
       !.Device = a.device,
       !.Timeout = IF a.hasTimeout THEN a.timeout ELSE DefaultTimeout,
       !.Profile = "default-mfa"]

\* Parse with the [default: 86400] missing from the Usage text
Parse_NoTimeoutDefault(conf, a) ==
    LET bound == [conf EXCEPT
                    !.Token = a.token,
                    !.Config = IF a.config = NotGiven THEN DocoptConfigDefault ELSE a.config,
                    !.Org = a.org,
                    !.Device = a.device,
                    !.Timeout = IF a.hasTimeout THEN a.timeout ELSE 0,
                    !.Profile = IF a.profile = NotGiven THEN DefaultProfile ELSE a.profile]
    IN  IF bound.Profile = "" THEN [bound EXCEPT !.Profile = "default-mfa"] ELSE bound

\* AppConfig.Parse: docopt.ParseArgs, Bind, then the Profile default.  A
\* command line the Usage text rejects ends the process inside
\* docopt.ParseArgs; the command lines of the model are those it accepts.
Parse(conf, a) ==
    LET bound == [conf EXCEPT
                    !.Token = a.token,
                    !.Config = IF a.config = NotGiven THEN DocoptConfigDefault ELSE a.config,
                    !.Org = a.org,
                    !.Device = a.device,
                    !.Timeout = IF a.hasTimeout THEN a.timeout ELSE DefaultTimeout,
                    !.Profile = IF a.profile = NotGiven THEN DefaultProfile ELSE a.profile]
    IN  IF bound.Profile = "" THEN [bound EXCEPT !.Profile = "default-mfa"] ELSE bound

-----------------------------------------------------------------------------
(* pkg/awsconfig *)

\* aws.Credentials
CredsOf(id, secret) == [AccessKeyID |-> id, SecretAccessKey |-> secret]
ZeroCreds == CredsOf("", "")
PermanentCreds == CredsOf("AKIAPERM", "perm-secret")

\* *sts.GetSessionTokenOutput; nil is the nil pointer
SessionOf(id, secret, token) ==
    [nil |-> FALSE, AccessKeyId |-> id, SecretAccessKey |-> secret, SessionToken |-> token]
NilSession == [nil |-> TRUE, AccessKeyId |-> "", SecretAccessKey |-> "", SessionToken |-> ""]
TemporaryCreds == SessionOf("ASIATEMP", "temp-secret", "session-token")

\* var g_aws appa.AwsConfig
ZeroAwsConfig == [defaultCreds |-> ZeroCreds, sessionCreds |-> NilSession]

\* what LoadDefaultConfig and Credentials.Retrieve answer
ProviderAnswers == {[ok |-> TRUE, creds |-> PermanentCreds], [ok |-> FALSE, creds |-> ZeroCreds]}

\* what LoadDefaultConfig and the STS GetSessionToken call answer:
\* noaccount fails before any request is made
StsAnswers ==
    {[kind |-> "ok", creds |-> TemporaryCreds],
     [kind |-> "rejected", creds |-> NilSession],
     [kind |-> "noaccount", creds |-> NilSession]}

ErrDefaultCreds == "failed to retrieve default credentials"
ErrSessionToken == "failed to get session token"
ErrDefaultAccount == "failed to get default account"
ErrSave == "failed to save file"

GetDefaultCreds(aws, answer) ==
    IF answer.ok
    THEN [aws |-> [aws EXCEPT !.defaultCreds = answer.creds], err |-> ErrNone]
    ELSE [aws |-> aws, err |-> ErrDefaultCreds]

\* sts.GetSessionTokenInput
NoRequest == [sent |-> FALSE, DurationSeconds |-> 0, SerialNumber |-> "", TokenCode |-> ""]
\* SessionTokenInput with the duration fixed at an hour, whatever Timeout is
SessionTokenInput_FixedDuration(appconfig) ==
    [sent |-> TRUE, DurationSeconds |-> 3600,
     SerialNumber |-> appconfig.Device, TokenCode |-> appconfig.Token]

\* SessionTokenInput with the org selecting the device of the request
SessionTokenInput_OrgSelects(appconfig) ==
    [sent |-> TRUE, DurationSeconds |-> appconfig.Timeout,
     SerialNumber |-> IF appconfig.Org = "other-org" THEN "other-device"
                      ELSE appconfig.Device,
     TokenCode |-> appconfig.Token]

SessionTokenInput(appconfig) ==
    [sent |-> TRUE, DurationSeconds |-> appconfig.Timeout,
     SerialNumber |-> appconfig.Device, TokenCode |-> appconfig.Token]

GetSessionCreds(aws, appconfig, answer) ==
    CASE answer.kind = "noaccount" ->
           [aws |-> aws, err |-> ErrDefaultAccount, request |-> NoRequest]
      [] answer.kind = "rejected" ->
           [aws |-> aws, err |-> ErrSessionToken, request |-> SessionTokenInput(appconfig)]
      [] OTHER ->
           [aws |-> [aws EXCEPT !.sessionCreds = answer.creds], err |-> ErrNone,
            request |-> SessionTokenInput(appconfig)]

\* $HOME/.aws/credentials: the sections of the ini document, each a map of keys
NoSections == [x \in {} |-> [y \in {} |-> ""]]
NoCredFile == [exists |-> FALSE, sections |-> NoSections]
IniFile(sections) == [exists |-> TRUE, sections |-> sections]

DefaultKeys(aws) ==
    [aws_access_key_id |-> aws.defaultCreds.AccessKeyID,
     aws_secret_access_key |-> aws.defaultCreds.SecretAccessKey]

DefaultMfaKeys(aws) ==
    [aws_session_token |-> aws.sessionCreds.SessionToken,
     aws_access_key_id |-> aws.sessionCreds.AccessKeyId,
     aws_secret_access_key |-> aws.sessionCreds.SecretAccessKey]

\* UpdatedDocument with the session's access key id written to [default]
UpdatedDocument_KeysCrossed(aws) ==
    ("default" :> [DefaultKeys(aws) EXCEPT !.aws_access_key_id = aws.sessionCreds.AccessKeyId])
    @@ ("default-mfa" :> DefaultMfaKeys(aws))

\* ini.Empty() and the two addKeysToSection calls
UpdatedDocument(aws) ==
    ("default" :> DefaultKeys(aws)) @@ ("default-mfa" :> DefaultMfaKeys(aws))

\* dereferencing the nil sessionCreds panics before anything is saved
CreateUpdatedConfig(aws, file, dirOk) ==
    CASE aws.sessionCreds.nil -> [file |-> file, err |-> ErrNone, panic |-> TRUE]
      [] ~dirOk -> [file |-> file, err |-> ErrSave, panic |-> FALSE]
      [] OTHER -> [file |-> IniFile(UpdatedDocument(aws)), err |-> ErrNone,
                   panic |-> FALSE]

\* credentials files a run may find
InitCredFiles ==
    { NoCredFile,
      IniFile(("default" :> DefaultKeys([defaultCreds |-> PermanentCreds]))
              @@ ("work" :> [aws_access_key_id |-> "AKIAWORK",
                             aws_secret_access_key |-> "work-secret"])),
      IniFile(("default" :> DefaultKeys([defaultCreds |-> PermanentCreds]))
              @@ ("default-mfa" :> DefaultMfaKeys(
                     [sessionCreds |-> SessionOf("ASIAOLD", "old-secret", "old-token")]))) }

Environments == [AWS_PROFILE : {"", "default-mfa", "custom-profile"}, awsDirOk : BOOLEAN]

\* the three AWS steps of main() as a function of the resolved configuration,
\* the answers of the provider chain and of STS, and the credentials file
\* found: the request sent and the file left
RunOutputs(appconfig, provided, answered, file, dirOk) ==
    LET got == GetDefaultCreds(ZeroAwsConfig, provided)
        exchanged == GetSessionCreds(got.aws, appconfig, answered)
        written == CreateUpdatedConfig(exchanged.aws, file, dirOk)
    IN  [request |-> exchanged.request, file |-> written.file]

-----------------------------------------------------------------------------
(* cmd/gredentures main(): the pipeline *)

StepNames == {"Parse", "ValidateOptions", "GetDefaultCreds", "GetSessionCreds",
              "CreateUpdatedConfig"}

NoSteps == [s \in StepNames |-> "notrun"]

Outcome(err) == IF err = ErrNone THEN "ok" ELSE "failed"

NotPrinted == "<nothing printed>"

\* the exit status: none while the process runs
Running == <<>>
Exited(status) == <<status>>

\* the pipeline variables while no run of main() is modelled
PipeIdle ==
    /\ pc = "idle"
    /\ args = NoArgs
    /\ g_aws = ZeroAwsConfig
    /\ credFile = NoCredFile
    /\ credFile0 = NoCredFile
    /\ awsEnv = [AWS_PROFILE |-> "", awsDirOk |-> TRUE]
    /\ steps = NoSteps
    /\ stsInput = NoRequest
    /\ printed = NotPrinted
    /\ exitStatus = Running

\* the invocations that save the credentials file at once
Writers == {1, 2}

\* the bytes inidata.SaveTo writes, in blocks: the document of a writer, as
\* long as its keys and its session token make it
Serialized(writer, len) == [i \in 1..len |-> <<writer, i>>]

\* write(2) of data at offset 0 of a file that holds old: what lies beyond
\* the data stays
Overwrite(old, data) ==
    [i \in 1..(IF Len(old) > Len(data) THEN Len(old) ELSE Len(data)) |->
        IF i <= Len(data) THEN data[i] ELSE old[i]]

\* no invocation is saving
NoRace == [disk |-> <<>>, at |-> [w \in Writers |-> "idle"],
           len |-> [w \in Writers |-> 0], last |-> 0]

RunsIdle == results = <<>> /\ race = NoRace

Init ==
    /\ g_app = ZeroAppConfig
    /\ cfgFile \in InitFiles
    /\ lastCall = NoCall
    /\ pc = "Parse"
    /\ args \in CommandLines
    /\ g_aws = ZeroAwsConfig
    /\ credFile \in InitCredFiles
    /\ credFile0 = credFile
    /\ awsEnv \in Environments
    /\ steps = NoSteps
    /\ stsInput = NoRequest
    /\ printed = NotPrinted
    /\ exitStatus = Running
    /\ RunsIdle

MainParse ==
    /\ pc = "Parse"
    /\ g_app' = Parse(g_app, args)
    /\ steps' = [steps EXCEPT !["Parse"] = "ok"]
    /\ pc' = "ValidateOptions"
    /\ UNCHANGED <<cfgFile, lastCall, args, g_aws, credFile, credFile0, awsEnv,
                   stsInput, printed, exitStatus>>
    /\ UNCHANGED runVars

MainValidateOptions ==
    /\ pc = "ValidateOptions"
    /\ \E pick \in Picks :
         LET r == ValidateOptions(g_app, cfgFile, pick)
         IN  /\ Called("ValidateOptions", r)
             /\ steps' = [steps EXCEPT !["ValidateOptions"] = Outcome(r.err)]
    /\ pc' = "GetDefaultCreds"
    /\ UNCHANGED <<args, g_aws, credFile, credFile0, awsEnv, stsInput, printed, exitStatus>>
    /\ UNCHANGED runVars

MainGetDefaultCreds ==
    /\ pc = "GetDefaultCreds"
    /\ \E answer \in ProviderAnswers :
         LET r == GetDefaultCreds(g_aws, answer)
         IN  /\ g_aws' = r.aws
             /\ steps' = [steps EXCEPT !["GetDefaultCreds"] = Outcome(r.err)]
    /\ pc' = "GetSessionCreds"
    /\ UNCHANGED <<args, credFile, credFile0, awsEnv, stsInput, printed, exitStatus>>
    /\ UNCHANGED <<cfgVars, runVars>>

\* MainGetSessionCreds removing the config file after a failed exchange
MainGetSessionCreds_RollsBack ==
    /\ pc = "GetSessionCreds"
    /\ \E answer \in StsAnswers :
         LET r == GetSessionCreds(g_aws, g_app, answer)
         IN  /\ g_aws' = r.aws
             /\ stsInput' = r.request
             /\ steps' = [steps EXCEPT !["GetSessionCreds"] = Outcome(r.err)]
             /\ cfgFile' = IF r.err # ErrNone /\ cfgFile.kind = "yaml"
                           THEN NoFile("absent") ELSE cfgFile
    /\ pc' = "CreateUpdatedConfig"
    /\ UNCHANGED <<args, credFile, credFile0, awsEnv, printed, exitStatus>>
    /\ UNCHANGED <<g_app, lastCall, runVars>>

MainGetSessionCreds ==
    /\ pc = "GetSessionCreds"
    /\ \E answer \in StsAnswers :
         LET r == GetSessionCreds(g_aws, g_app, answer)
         IN  /\ g_aws' = r.aws
             /\ stsInput' = r.request
             /\ steps' = [steps EXCEPT !["GetSessionCreds"] = Outcome(r.err)]
    /\ pc' = "CreateUpdatedConfig"
    /\ UNCHANGED <<args, credFile, credFile0, awsEnv, printed, exitStatus>>
    /\ UNCHANGED <<cfgVars, runVars>>

MainCreateUpdatedConfig ==
    /\ pc = "CreateUpdatedConfig"
    /\ LET r == CreateUpdatedConfig(g_aws, credFile, awsEnv.awsDirOk)
       IN  /\ credFile' = r.file
           /\ steps' = [steps EXCEPT !["CreateUpdatedConfig"] =
                           IF r.panic THEN "panicked" ELSE Outcome(r.err)]
           /\ pc' = IF r.panic THEN "exited" ELSE "Message"
           /\ exitStatus' = IF r.panic THEN Exited(2) ELSE exitStatus
    /\ UNCHANGED <<args, g_aws, credFile0, awsEnv, stsInput, printed>>
    /\ UNCHANGED <<cfgVars, runVars>>

\* MainMessage testing for, and naming, "default-mfa" whatever the profile is
MainMessage_DefaultMfa ==
    /\ pc = "Message"
    /\ printed' = IF awsEnv.AWS_PROFILE # "default-mfa" THEN "default-mfa" ELSE NotPrinted
    /\ pc' = "exited"
    /\ exitStatus' = Exited(0)
    /\ UNCHANGED <<args, g_aws, credFile, credFile0, awsEnv, steps, stsInput>>
    /\ UNCHANGED <<cfgVars, runVars>>

\* the last statement of main(), and its return
MainMessage ==
    /\ pc = "Message"
    /\ printed' = IF awsEnv.AWS_PROFILE # g_app.Profile THEN g_app.Profile ELSE NotPrinted
    /\ pc' = "exited"
    /\ exitStatus' = Exited(0)
    /\ UNCHANGED <<args, g_aws, credFile, credFile0, awsEnv, steps, stsInput>>
    /\ UNCHANGED <<cfgVars, runVars>>

Next ==
    \/ MainParse
    \/ MainValidateOptions
    \/ MainGetDefaultCreds
    \/ MainGetSessionCreds
    \/ MainCreateUpdatedConfig
    \/ MainMessage

Spec == Init /\ [][Next]_vars

-----------------------------------------------------------------------------
(* SpecAPI: the AppConfig methods called directly *)

\* the files WriteGredenturesConfig leaves are reached by calling it
InitAPI ==
    /\ g_app \in FreshConfigs
    /\ cfgFile \in InitFiles \ WrittenFiles
    /\ lastCall = NoCall
    /\ PipeIdle
    /\ RunsIdle

\* a caller builds another AppConfig
NewAppConfig ==
    /\ \E conf \in FreshConfigs : g_app' = conf
    /\ lastCall' = NoCall
    /\ UNCHANGED <<cfgFile, pipeVars, runVars>>

CallWriteGredenturesConfig ==
    /\ Called("WriteGredenturesConfig", WriteGredenturesConfig(g_app, cfgFile))
    /\ UNCHANGED <<pipeVars, runVars>>

CallLoadGredenturesConfig ==
    /\ \E pick \in Picks :
         Called("LoadGredenturesConfig", LoadGredenturesConfig(g_app, cfgFile, pick))
    /\ UNCHANGED <<pipeVars, runVars>>

CallGetGredenturesConfig ==
    /\ \E pick \in Picks :
         Called("GetGredenturesConfig", GetGredenturesConfig(g_app, cfgFile, pick))
    /\ UNCHANGED <<pipeVars, runVars>>

CallValidateOptions ==
    /\ \E pick \in Picks :
         Called("ValidateOptions", ValidateOptions(g_app, cfgFile, pick))
    /\ UNCHANGED <<pipeVars, runVars>>

NextAPI ==
    \/ NewAppConfig
    \/ CallWriteGredenturesConfig
    \/ CallLoadGredenturesConfig
    \/ CallGetGredenturesConfig
    \/ CallValidateOptions

SpecAPI == InitAPI /\ [][NextAPI]_vars

-----------------------------------------------------------------------------
(* SpecRuns: consecutive runs' resolutions against one config path *)

InitRuns ==
    /\ g_app = ZeroAppConfig
    /\ cfgFile \in InitFiles
    /\ lastCall = NoCall
    /\ results = <<>>
    /\ race = NoRace
    /\ PipeIdle

\* the command lines of the runs: all name the same config path
RunConfigs == { conf \in FreshConfigs : conf.Config = "/tmp/config" }

\* one run's resolution: a fresh AppConfig holding the command line's values,
\* then ValidateOptions
Resolve ==
    /\ Len(results) < MaxResolutions
    /\ \E conf \in RunConfigs, pick \in Picks :
         LET r == ValidateOptions(conf, cfgFile, pick)
         IN  /\ g_app' = r.conf
             /\ cfgFile' = r.file
             /\ lastCall' = [op |-> "ValidateOptions", pre |-> conf,
                             preFile |-> cfgFile, err |-> r.err]
             /\ results' = Append(results, [input |-> conf, conf |-> r.conf, err |-> r.err,
                                            fileBefore |-> cfgFile, fileAfter |-> r.file])
    /\ UNCHANGED <<pipeVars, race>>

NextRuns == Resolve

SpecRuns == InitRuns /\ [][NextRuns]_vars

-----------------------------------------------------------------------------
(* SpecRace: two invocations reach inidata.SaveTo of CreateUpdatedConfig   *)
(* at once.  SaveTo builds the bytes and hands them to WriteFile, which    *)
(* opens the path truncating it, writes the bytes at offset 0 and closes.  *)

InitRace ==
    /\ g_app = ZeroAppConfig
    /\ cfgFile = NoFile("absent")
    /\ lastCall = NoCall
    /\ PipeIdle
    /\ results = <<>>
    /\ \E found \in 0..MaxDocLen, len \in [Writers -> 1..MaxDocLen] :
         race = [disk |-> Serialized(0, found), at |-> [w \in Writers |-> "open"],
                 len |-> len, last |-> 0]

\* OpenFile(name, O_WRONLY|O_CREATE|O_TRUNC, perm)
SaveOpen(w) ==
    /\ race.at[w] = "open"
    /\ race' = [race EXCEPT !.disk = <<>>, !.at[w] = "write"]
    /\ UNCHANGED <<cfgVars, pipeVars, results>>

\* f.Write(data) and f.Close()
SaveWrite(w) ==
    /\ race.at[w] = "write"
    /\ race' = [race EXCEPT !.disk = Overwrite(@, Serialized(w, race.len[w])),
                             !.at[w] = "done", !.last = w]
    /\ UNCHANGED <<cfgVars, pipeVars, results>>

NextRace ==
    \/ \E w \in Writers : SaveOpen(w)
    \/ \E w \in Writers : SaveWrite(w)

SpecRace == InitRace /\ [][NextRace]_vars

-----------------------------------------------------------------------------
(* Properties *)

Loaded == lastCall.op = "LoadGredenturesConfig"
Validated == lastCall.op = "ValidateOptions"

\* the value a config file holds for a key, decoded as a string or an integer
FileString(file, key) == IF file.kind = "yaml" THEN KString(file[key]) ELSE ""
FileInt(file, key) == IF file.kind = "yaml" THEN KInt(file[key]) ELSE 0

\* C1: after LoadGredenturesConfig of an existing, decodable file, Org, Device
\* and Timeout equal the command-line value when it is non-empty (non-zero)
\* and the file's value when it is empty (zero).
C1_Precedence ==
    (Loaded /\ lastCall.preFile.kind = "yaml") =>
        /\ g_app.Org = IF lastCall.pre.Org # "" THEN lastCall.pre.Org
                       ELSE FileString(lastCall.preFile, "Org")
        /\ g_app.Device = IF lastCall.pre.Device # "" THEN lastCall.pre.Device
                          ELSE FileString(lastCall.preFile, "Device")
        /\ g_app.Timeout = IF lastCall.pre.Timeout # 0 THEN lastCall.pre.Timeout
                           ELSE FileInt(lastCall.preFile, "Timeout")

WroteCredentials == steps["CreateUpdatedConfig"] = "ok"

\* C2: after CreateUpdatedConfig succeeds the credentials file holds exactly
\* [default] with the permanent key pair and [default-mfa] with the three
\* temporary values.
C2_TwoSections ==
    WroteCredentials =>
        /\ credFile.exists
        /\ DOMAIN credFile.sections = {"default", "default-mfa"}
        /\ credFile.sections["default"] =
             [aws_access_key_id |-> g_aws.defaultCreds.AccessKeyID,
              aws_secret_access_key |-> g_aws.defaultCreds.SecretAccessKey]
        /\ credFile.sections["default-mfa"] =
             [aws_access_key_id |-> g_aws.sessionCreds.AccessKeyId,
              aws_secret_access_key |-> g_aws.sessionCreds.SecretAccessKey,
              aws_session_token |-> g_aws.sessionCreds.SessionToken]

\* C2 witness: a run that found another profile in the file, retrieved the
\* permanent credentials and wrote the file.
C2_Witness ==
    /\ WroteCredentials
    /\ "work" \in DOMAIN credFile0.sections
    /\ g_aws.defaultCreds = PermanentCreds
    /\ g_aws.sessionCreds = TemporaryCreds

\* C3: the section of the written credentials file that holds the temporary
\* credentials is named by the resolved profile.
C3_ProfileSection ==
    WroteCredentials =>
        /\ g_app.Profile \in DOMAIN credFile.sections
        /\ credFile.sections[g_app.Profile] =
             [aws_access_key_id |-> g_aws.sessionCreds.AccessKeyId,
              aws_secret_access_key |-> g_aws.sessionCreds.SecretAccessKey,
              aws_session_token |-> g_aws.sessionCreds.SessionToken]

\* C4: when GetSessionCreds fails, CreateUpdatedConfig is not executed and
\* the credentials file is left as the run found it.
C4_NoWriteAfterFailedExchange ==
    steps["GetSessionCreds"] = "failed" =>
        /\ steps["CreateUpdatedConfig"] = "notrun"
        /\ credFile = credFile0

\* the order of the pipeline
StepOrder ==
    [Parse |-> 1, ValidateOptions |-> 2, GetDefaultCreds |-> 3, GetSessionCreds |-> 4,
     CreateUpdatedConfig |-> 5]

\* C5: the run ends with status 0 only if every step succeeded; after a
\* failed step no later step is executed and the status is not 0.
C5_ExitStatus ==
    /\ exitStatus = Exited(0) => \A s \in StepNames : steps[s] = "ok"
    /\ \A s \in StepNames :
         steps[s] = "failed" =>
            /\ \A t \in StepNames : StepOrder[t] > StepOrder[s] => steps[t] = "notrun"
            /\ exitStatus # Exited(0)

AllSupplied(conf) == conf.Token # "" /\ conf.Org # "" /\ conf.Device # ""

\* the config file is one GetGredenturesConfig loads or creates without error
ConfigStepSucceeds(file) == file.kind \in {"absent", "yaml"}

\* C6 as stated: with token, org and device all supplied ValidateOptions
\* succeeds whatever the config file is.
C6_Original ==
    (Validated /\ AllSupplied(lastCall.pre)) => lastCall.err = ErrNone

\* C6: with token, org and device all supplied ValidateOptions succeeds when
\* the config file is absent and can be created or exists and decodes, and
\* fails with the config error otherwise.
C6_AllSupplied ==
    (Validated /\ AllSupplied(lastCall.pre)) =>
        lastCall.err = IF ConfigStepSucceeds(lastCall.preFile) THEN ErrNone ELSE ErrConfig

\* C6 witness: all three supplied, a decodable file, success.
C6_Witness ==
    /\ Validated
    /\ AllSupplied(lastCall.pre)
    /\ lastCall.preFile.kind = "yaml"
    /\ lastCall.err = ErrNone

\* C7 as stated: with an empty token ValidateOptions fails with the
\* token-required error, whatever org, device and the config file are.
C7_Original ==
    (Validated /\ lastCall.pre.Token = "") => lastCall.err = ErrToken

\* C7: with an empty token ValidateOptions fails with the token-required
\* error whenever the config file is loaded or created without error, whatever
\* org and device are; otherwise it fails with the config error.
C7_TokenRequired ==
    (Validated /\ lastCall.pre.Token = "") =>
        lastCall.err = IF ConfigStepSucceeds(lastCall.preFile) THEN ErrToken ELSE ErrConfig

\* C7 witness: token, org and device all missing, on the command line and in
\* the file.
C7_Witness ==
    /\ Validated
    /\ lastCall.pre.Token = "" /\ lastCall.pre.Org = "" /\ lastCall.pre.Device = ""
    /\ lastCall.preFile.kind = "yaml"
    /\ FileString(lastCall.preFile, "Org") = ""
    /\ lastCall.err = ErrToken

\* org or device is missing on the command line and the file has no value for it
MissingUnsupplied(conf, file) ==
    \E key \in {"Org", "Device"} : conf[key] = "" /\ FileString(file, key) = ""

\* C8 as stated: with a token, and org or device missing and not supplied by
\* the config file, ValidateOptions fails with the joint org/device error.
C8_Original ==
    (Validated /\ lastCall.pre.Token # "" /\ MissingUnsupplied(lastCall.pre, lastCall.preFile))
        => lastCall.err = ErrOrgDevice

\* C8: the same, whenever the config file is loaded or created without
\* error; otherwise ValidateOptions fails with the config error.
C8_OrgDeviceRequired ==
    (Validated /\ lastCall.pre.Token # "" /\ MissingUnsupplied(lastCall.pre, lastCall.preFile))
        => lastCall.err = IF ConfigStepSucceeds(lastCall.preFile) THEN ErrOrgDevice
                          ELSE ErrConfig

\* C8 witness: org supplied, device missing and not in the decodable file.
C8_Witness ==
    /\ Validated
    /\ lastCall.pre.Token # "" /\ lastCall.pre.Org # "" /\ lastCall.pre.Device = ""
    /\ lastCall.preFile.kind = "yaml"
    /\ FileString(lastCall.preFile, "Device") = ""
    /\ lastCall.err = ErrOrgDevice

\* C9: when ValidateOptions returns without error, token, org and device are
\* all non-empty.
C9_Resolved ==
    (Validated /\ lastCall.err = ErrNone) =>
        g_app.Token # "" /\ g_app.Org # "" /\ g_app.Device # ""

\* C9 witness: a success in which org came from the file.
C9_Witness ==
    /\ Validated
    /\ lastCall.err = ErrNone
    /\ lastCall.pre.Org = ""
    /\ lastCall.pre.Device # ""

\* C10: two consecutive resolutions from the same command line, without org,
\* device or timeout on it, against an existing config file resolve the same
\* org, device and timeout.
C10_Idempotent ==
    \A i \in 1..(Len(results) - 1) :
        (/\ results[i + 1].input = results[i].input
         /\ results[i].input.Org = "" /\ results[i].input.Device = ""
         /\ results[i].input.Timeout = 0
         /\ Stat(results[i].fileBefore) = "ok")
            => /\ results[i + 1].conf.Org = results[i].conf.Org
               /\ results[i + 1].conf.Device = results[i].conf.Device
               /\ results[i + 1].conf.Timeout = results[i].conf.Timeout

-----------------------------------------------------------------------------
(* Properties of the config file's life: bootstrap, round trip, defaults *)

\* main() has called ValidateOptions and it found no config file to load
Bootstrapped == Validated /\ steps["ValidateOptions"] # "notrun" /\ lastCall.preFile.kind = "absent"

\* the secrets of a run: the token and every credential it holds
Secrets ==
    {args.token, g_aws.defaultCreds.AccessKeyID, g_aws.defaultCreds.SecretAccessKey,
     g_aws.sessionCreds.AccessKeyId, g_aws.sessionCreds.SecretAccessKey,
     g_aws.sessionCreds.SessionToken} \ {""}

\* a decodable file that holds the three keys with these values and no secret
Holds(file, org, device, timeout) ==
    /\ file.kind = "yaml"
    /\ file.Org = Str(org)
    /\ file.Device = Str(device)
    /\ file.Timeout = Num(timeout)
    /\ \A key \in Keys : KString(file[key]) \notin Secrets

\* C11 as stated: when the config file does not exist, resolution creates it
\* holding Org, Device and Timeout, each the value given on the command line
\* and empty or 0 when none is given, and no secret.
C11_Original ==
    Bootstrapped =>
        Holds(cfgFile, args.org, args.device, IF args.hasTimeout THEN args.timeout ELSE 0)

\* C11: when the config file does not exist, resolution creates it holding
\* Org, Device and Timeout, each the value given on the command line, empty
\* for an org or device that is not given and 86400 for a timeout that is not
\* given, and no secret.
C11_Bootstrap ==
    Bootstrapped =>
        Holds(cfgFile, args.org, args.device,
              IF args.hasTimeout THEN args.timeout ELSE DefaultTimeout)

\* C11 witness: a run without --device and without --timeout has created the
\* file and gone on to hold credentials.
C11_Witness ==
    /\ Bootstrapped
    /\ args.org = "cli-org" /\ args.device = "" /\ ~args.hasTimeout
    /\ args.token # ""
    /\ g_aws.sessionCreds = TemporaryCreds
    /\ cfgFile.kind = "yaml"

\* LoadGredenturesConfig has read a file WriteGredenturesConfig wrote into a
\* configuration whose Org, Device and Timeout were empty
LoadedWritten ==
    /\ Loaded
    /\ lastCall.preFile.kind = "yaml" /\ lastCall.preFile.layout = "flat"
    /\ lastCall.pre.Org = "" /\ lastCall.pre.Device = "" /\ lastCall.pre.Timeout = 0

\* C12: WriteGredenturesConfig followed by LoadGredenturesConfig of the same
\* path into a configuration with Org, Device and Timeout empty yields the
\* org, the device and the integer timeout that were written.
C12_RoundTrip ==
    LoadedWritten =>
        /\ lastCall.err = ErrNone
        /\ g_app.Org = lastCall.preFile.Org.s
        /\ g_app.Device = lastCall.preFile.Device.s
        /\ g_app.Timeout = lastCall.preFile.Timeout.n

\* main() has resolved its configuration without error
Resolved == Validated /\ steps["ValidateOptions"] = "ok"

Parsed == steps["Parse"] = "ok"

\* C14 as stated: after Parse, Profile is the value given with --profile when
\* one is given and "default-mfa" when none is given.
C14_Original ==
    Parsed => g_app.Profile = IF args.profile = NotGiven THEN "default-mfa" ELSE args.profile

\* C14: after Parse, Profile is the value given with --profile when a
\* non-empty one is given, and "default-mfa" when none or an empty one is.
C14_Profile ==
    Parsed => g_app.Profile = IF args.profile \in {NotGiven, ""} THEN "default-mfa"
                              ELSE args.profile

\* C14 witness: Parse of a command line with --profile custom-profile.
C14_Witness ==
    /\ Parsed
    /\ pc = "ValidateOptions"
    /\ args.profile = "custom-profile"
    /\ g_app.Profile = "custom-profile"

\* C15: the request GetSessionCreds sends has SerialNumber equal to the
\* resolved device, TokenCode equal to the resolved token and DurationSeconds
\* equal to the resolved timeout.
C15_ExchangeRequest ==
    stsInput.sent =>
        /\ stsInput.SerialNumber = g_app.Device
        /\ stsInput.TokenCode = g_app.Token
        /\ stsInput.DurationSeconds = g_app.Timeout

\* C15 witness: an accepted request of a run whose device came from the
\* config file and whose timeout came from the command line.
C15_Witness ==
    /\ Resolved
    /\ steps["GetSessionCreds"] = "ok"
    /\ stsInput.sent
    /\ args.device = "" /\ stsInput.SerialNumber = "file-device"
    /\ stsInput.TokenCode = "123456"
    /\ stsInput.DurationSeconds = 600

\* the file's Timeout is a string that is no integer
TimeoutUnparsable(file) ==
    file.kind = "yaml" /\ file.Timeout.k = "str" /\ ~Atoi(file.Timeout.s).ok

\* C16: LoadGredenturesConfig returns an error whenever the config file's
\* Timeout cannot be parsed as an integer.
C16_TimeoutParseError ==
    (Loaded /\ TimeoutUnparsable(lastCall.preFile)) => lastCall.err # ErrNone

\* C17: LoadGredenturesConfig on a path that does not exist, or on a file
\* that cannot be decoded, returns an error, leaves Org, Device and Timeout
\* in memory as they were and neither creates nor changes the file.
C17_LoadFailure ==
    (Loaded /\ lastCall.preFile.kind \in {"absent", "nodir", "undecodable"}) =>
        /\ lastCall.err # ErrNone
        /\ g_app.Org = lastCall.pre.Org
        /\ g_app.Device = lastCall.pre.Device
        /\ g_app.Timeout = lastCall.pre.Timeout
        /\ cfgFile = lastCall.preFile

\* C17 witness: a failed load of a missing file into a configuration that
\* holds an org and no device.
C17_Witness ==
    /\ Loaded
    /\ lastCall.preFile.kind = "absent"
    /\ lastCall.err = ErrLoadFile
    /\ lastCall.pre.Org = "cli-org" /\ lastCall.pre.Device = ""
    /\ cfgFile.kind = "absent"

\* C18: a config file the resolution step of a run created is on disk with
\* the content it was given when the run ends, whichever later step failed.
C18_NoRollback ==
    (pc = "exited" /\ Bootstrapped) =>
        /\ cfgFile.kind = "yaml"
        /\ cfgFile.Org = Str(lastCall.pre.Org)
        /\ cfgFile.Device = Str(lastCall.pre.Device)
        /\ cfgFile.Timeout = Num(lastCall.pre.Timeout)

\* C18 witness: a run that created the config file, resolved, and then had
\* its exchange rejected, at its end.
C18_Witness ==
    /\ pc = "exited"
    /\ Bootstrapped
    /\ steps["ValidateOptions"] = "ok"
    /\ steps["GetSessionCreds"] = "failed"
    /\ cfgFile.kind = "yaml"

-----------------------------------------------------------------------------
(* Properties of consecutive runs *)

Runs == 1..Len(results)

\* C19: once the config file exists no resolution changes its content,
\* whatever the command line gives: a run changes the file only when it
\* finds none.
C19_WrittenOnce ==
    \A i \in Runs :
        /\ Stat(results[i].fileBefore) = "ok" => results[i].fileAfter = results[i].fileBefore
        /\ results[i].fileAfter # results[i].fileBefore =>
              results[i].fileBefore.kind = "absent"

\* C19 witness: the first run created the file, the second gave another org
\* and another timeout and left the file as the first wrote it.
C19_Witness ==
    /\ Len(results) >= 2
    /\ results[1].fileBefore.kind = "absent"
    /\ results[1].fileAfter.kind = "yaml"
    /\ results[1].input.Org = "" /\ results[2].input.Org = "cli-org"
    /\ results[1].input.Timeout = 0 /\ results[2].input.Timeout = 600
    /\ results[2].err = ErrNone
    /\ results[2].fileAfter = results[1].fileAfter

\* the keys an existing file holds no value for and the command line gives
FilledBy(input, file) ==
    {key \in {"Org", "Device"} : FileString(file, key) = "" /\ input[key] # ""}
    \cup {key \in {"Timeout"} : FileInt(file, key) = 0 /\ input[key] # 0}

\* C20 as stated: when the config file exists with an empty Org or Device or
\* a zero Timeout and a run gives that field on the command line, the file
\* holds the value given after the run.
C20_Original ==
    \A i \in Runs :
        results[i].fileBefore.kind = "yaml" =>
            /\ \A key \in FilledBy(results[i].input, results[i].fileBefore) \ {"Timeout"} :
                  FileString(results[i].fileAfter, key) = results[i].input[key]
            /\ \A key \in FilledBy(results[i].input, results[i].fileBefore) \ {"Org", "Device"} :
                  FileInt(results[i].fileAfter, key) = results[i].input[key]

\* C20: when the config file exists with an empty Org or Device or a zero
\* Timeout and a run gives that field on the command line, the run resolves
\* the value given and the file still holds no value for the field.
C20_NotFilled ==
    \A i \in Runs :
        results[i].fileBefore.kind = "yaml" =>
            \A key \in FilledBy(results[i].input, results[i].fileBefore) :
                /\ results[i].conf[key] = results[i].input[key]
                /\ results[i].fileAfter[key] = results[i].fileBefore[key]

\* C20 witness: a successful run with --device over a file that holds an org
\* and no device.
C20_Witness ==
    \E i \in Runs :
        /\ results[i].fileBefore.kind = "yaml"
        /\ FileString(results[i].fileBefore, "Org") = "file-org"
        /\ "Device" \in FilledBy(results[i].input, results[i].fileBefore)
        /\ results[i].err = ErrNone
        /\ results[i].conf.Device = "cli-device"
        /\ FileString(results[i].fileAfter, "Device") = ""

-----------------------------------------------------------------------------
(* Properties of the pipeline: what each step is given and leaves *)

\* C21: GetSessionCreds is called only after ValidateOptions returned without
\* error, and no request carries an empty token or an empty device.
C21_ValidatedExchange ==
    steps["GetSessionCreds"] # "notrun" =>
        /\ steps["ValidateOptions"] = "ok"
        /\ stsInput.sent => (stsInput.TokenCode # "" /\ stsInput.SerialNumber # "")

Finished == pc \in {"Message", "exited"}

\* the orgs a run may resolve
Orgs == {"cli-org", "file-org", "other-org"}

\* C22: a run that resolved another org, with the same token, device, timeout
\* and profile and the same answers of the provider chain and of STS, sends
\* the same request and leaves the same credentials file.
C22_OrgIrrelevant ==
    (Finished /\ Resolved) =>
        \A provided \in ProviderAnswers, answered \in StsAnswers :
            RunOutputs(g_app, provided, answered, credFile0, awsEnv.awsDirOk)
                    = [request |-> stsInput, file |-> credFile]
                => \A org \in Orgs :
                     RunOutputs([g_app EXCEPT !.Org = org], provided, answered,
                                credFile0, awsEnv.awsDirOk)
                        = [request |-> stsInput, file |-> credFile]

\* C22 witness: a finished run that took its org from the config file, sent
\* its request and wrote the credentials file.
C22_Witness ==
    /\ Finished /\ Resolved
    /\ g_app.Org = "file-org"
    /\ stsInput.sent
    /\ WroteCredentials
    /\ \E provided \in ProviderAnswers, answered \in StsAnswers :
          RunOutputs(g_app, provided, answered, credFile0, awsEnv.awsDirOk)
              = [request |-> stsInput, file |-> credFile]

\* main() has passed its last statement
Returned == exitStatus = Exited(0)

\* C23: the message is printed exactly when AWS_PROFILE differs from the
\* resolved profile, and the profile it names is the resolved profile.
C23_Message ==
    /\ Returned => (printed # NotPrinted <=> awsEnv.AWS_PROFILE # g_app.Profile)
    /\ printed # NotPrinted => (Returned /\ printed = g_app.Profile)

\* C23 witness: a run with --profile custom-profile under
\* AWS_PROFILE=default-mfa printed the message.
C23_Witness ==
    /\ Returned
    /\ args.profile = "custom-profile"
    /\ awsEnv.AWS_PROFILE = "default-mfa"
    /\ printed = "custom-profile"

\* C24: after a successful write of the credentials file, no section the run
\* found in it, other than default and the section of the session profile,
\* is left in it.
C24_WholeFileOverwrite ==
    WroteCredentials =>
        \A section \in DOMAIN credFile0.sections \ {"default", g_app.Profile} :
            section \notin DOMAIN credFile.sections

\* C25: when the config file does not exist, ValidateOptions writes it before
\* it tests the required values: the file exists after a call that fails
\* because the token, the org or the device is missing.
C25_WrittenBeforeChecked ==
    (Validated /\ Stat(lastCall.preFile) = "notexist"
               /\ lastCall.err \in {ErrToken, ErrOrgDevice}) =>
        /\ cfgFile.kind = "yaml"
        /\ cfgFile.Org = Str(lastCall.pre.Org)
        /\ cfgFile.Device = Str(lastCall.pre.Device)
        /\ cfgFile.Timeout = Num(lastCall.pre.Timeout)

\* C25 witness: ValidateOptions without a token and without a file failed
\* with the token error and left the file.
C25_Witness ==
    /\ Validated
    /\ lastCall.preFile.kind = "absent"
    /\ lastCall.pre.Token = "" /\ lastCall.pre.Org = "cli-org"
    /\ lastCall.err = ErrToken
    /\ cfgFile.kind = "yaml"

\* C26: in the pipeline, when --timeout is not given and the existing config
\* file holds a non-zero Timeout, the resolved timeout is the file's.
C26_FileTimeout ==
    (Validated /\ steps["ValidateOptions"] # "notrun" /\ ~args.hasTimeout
               /\ FileInt(lastCall.preFile, "Timeout") # 0)
        => g_app.Timeout = FileInt(lastCall.preFile, "Timeout")

\* C28: when GetDefaultCreds fails in a run, the run leaves the credentials
\* file as it found it.
C28_NoWriteWithoutDefaultCreds ==
    steps["GetDefaultCreds"] = "failed" => credFile = credFile0

\* C29: when the message is printed, the profile it names is a section the
\* run wrote to the credentials file.
C29_PrintedProfileWritten ==
    printed # NotPrinted =>
        /\ WroteCredentials
        /\ printed \in DOMAIN credFile.sections

\* C30: after a run that finds no config file and creates it from the org,
\* device and timeout of its command line, a following run on the same path
\* that gives none of the three resolves that org, device and timeout.
C30_BootstrapThenBackfill ==
    \A i \in 1..(Len(results) - 1) :
        (/\ results[i].fileBefore.kind = "absent"
         /\ results[i + 1].input.Org = "" /\ results[i + 1].input.Device = ""
         /\ results[i + 1].input.Timeout = 0)
            => /\ results[i + 1].conf.Org = results[i].input.Org
               /\ results[i + 1].conf.Device = results[i].input.Device
               /\ results[i + 1].conf.Timeout = results[i].input.Timeout

-----------------------------------------------------------------------------
(* Properties of concurrent invocations *)

BothSaved == \A w \in Writers : race.at[w] = "done"

\* C27: when two invocations save the credentials file at once, the file at
\* the end is the whole document of the invocation that wrote last and
\* nothing of the other's.
C27_LastWriterWins ==
    BothSaved => race.disk = Serialized(race.last, race.len[race.last])

====
